---- MODULE Spec2Model ----
(***************************************************************************)
(* Model of elaphe/symbology/util/translation.py: the Translation driver   *)
(* (a generator that feeds a growing queue to translate_chars), the        *)
(* MapTranslation and Code128Translation resolvers, and charmap.           *)
(*                                                                         *)
(* Characters are their ASCII codes, strings are sequences of characters.  *)
(* Python values are tagged records so that None, integers, NotImplemented *)
(* and a replacement character stay distinct and comparable.               *)
(***************************************************************************)
EXTENDS Integers, Sequences, FiniteSets, TLC

VARIABLES
    kind,       \* class of the translator instance
    cfg,        \* MapTranslation attributes: map, allowed_chars, min_chars, max_chars
    code,       \* Code128Translation.code
    pc,         \* position of the generator returned by translate()
    on_error,   \* the on_error argument of the running translate()
    message,    \* the part of a literal message the for loop has not read yet
    streamed,   \* TRUE when the message is an iterable producing characters on demand
    consumed,   \* the characters the for loop has read so far
    queue,      \* the local variable queue of translate()
    out,        \* the values the generator has yielded so far
    err,        \* the exception that ended the generator, "" when there is none
    last,       \* the latest pass of the loop: the argument of its translate_chars
                \* call, self.code before the call, the outcome, the values yielded
    runs,       \* self.code at each translate() call made on the instance so far
    lastop,     \* the latest operation: "translate", "begin", "step", "finish", "reset", "pull"
    other       \* a second generator, of the same instance or of another one

vars == <<kind, cfg, code, pc, on_error, message, streamed, consumed, queue, out, err, last,
          runs, lastop, other>>

----------------------------------------------------------------------------
(* Bounds *)

\* translate() calls on one instance
MaxRuns == 2

\* longest message drawn character by character from the alphabet
MaxLen == 5

\* escape values ^v of the literal messages range over 0..MaxEscape
MaxEscape == 120

----------------------------------------------------------------------------
(* Python values *)

PyNone == [t |-> "None", v |-> 0]
PyNotImplemented == [t |-> "NotImplemented", v |-> 0]
PyInt(n) == [t |-> "int", v |-> n]
PyStr(c) == [t |-> "str", v |-> c]

\* ord() of the characters the messages below are written with
ord(c) ==
    CASE c = "NUL" -> 0  [] c = "SOH" -> 1  [] c = "STX" -> 2
      [] c = " " -> 32   [] c = "#" -> 35   [] c = "*" -> 42
      [] c = "+" -> 43   [] c = "-" -> 45
      [] c = "0" -> 48   [] c = "1" -> 49   [] c = "2" -> 50
      [] c = "3" -> 51   [] c = "4" -> 52   [] c = "5" -> 53
      [] c = "6" -> 54   [] c = "7" -> 55   [] c = "8" -> 56
      [] c = "9" -> 57   [] c = "A" -> 65   [] c = "X" -> 88
      [] c = "Z" -> 90   [] c = "^" -> 94   [] c = "_" -> 95
      [] c = "GRAVE" -> 96   [] c = "a" -> 97   [] c = "b" -> 98
      [] c = "x" -> 120  [] c = "DEL" -> 127

\* a string literal, written as a tuple of its characters
RECURSIVE S(_)
S(t) == IF t = <<>> THEN <<>> ELSE <<ord(Head(t))>> \o S(Tail(t))

\* str.isdigit() of a byte string
IsDigitChar(c) == c \in ord("0")..ord("9")
isdigit(s) == Len(s) > 0 /\ \A i \in 1..Len(s) : IsDigitChar(s[i])

\* value of a string of decimal digits
RECURSIVE DecValue(_)
DecValue(s) ==
    IF s = <<>> THEN 0
    ELSE 10 * DecValue(SubSeq(s, 1, Len(s) - 1)) + (s[Len(s)] - ord("0"))

\* str(n) for n >= 0
RECURSIVE str(_)
str(n) == IF n < 10 THEN <<ord("0") + n>> ELSE str(n \div 10) \o <<ord("0") + (n % 10)>>

\* characters int() strips from both ends: string.whitespace
IsSpaceChar(c) == c \in {9, 10, 11, 12, 13, 32}

RECURSIVE lstrip(_)
lstrip(s) == IF s # <<>> /\ IsSpaceChar(Head(s)) THEN lstrip(Tail(s)) ELSE s

RECURSIVE rstrip(_)
rstrip(s) ==
    IF s # <<>> /\ IsSpaceChar(s[Len(s)]) THEN rstrip(SubSeq(s, 1, Len(s) - 1)) ELSE s

\* int(s, 10): surrounding whitespace and one sign are accepted; anything else
\* raises ValueError
int10(s) ==
    LET b == rstrip(lstrip(s))
        signed == b # <<>> /\ Head(b) \in {ord("+"), ord("-")}
        d == IF signed THEN Tail(b) ELSE b
    IN  IF ~isdigit(d) THEN [exc |-> "ValueError", ret |-> PyNone]
        ELSE [exc |-> "",
              ret |-> PyInt(IF signed /\ Head(b) = ord("-") THEN 0 - DecValue(d)
                            ELSE DecValue(d))]

----------------------------------------------------------------------------
(* charmap and the resolvers *)

\* charmap(chars, offset, skip_char): a dict keyed by one-character strings; a
\* character that occurs twice keeps the value of its last occurrence.
\* skip_char is a string, <<>> standing for None.
charmap(chars, offset, skip_char) ==
    [k \in {<<chars[i]>> : i \in 1..Len(chars)} |->
        LET idx == CHOOSE i \in 1..Len(chars) :
                       /\ chars[i] = k[1]
                       /\ \A j \in 1..Len(chars) : chars[j] = k[1] => j <= i
        IN  IF k # skip_char THEN PyInt((idx - 1) + offset) ELSE PyNone]

\* dict.update
DictUpdate(d, e) ==
    [k \in DOMAIN d \cup DOMAIN e |-> IF k \in DOMAIN e THEN e[k] ELSE d[k]]

\* dict.get
DictGet(d, k) == IF k \in DOMAIN d THEN d[k] ELSE PyNone

EmptyDict == [k \in {} |-> PyNone]

\* MapTranslation.__init__: allowed_chars is the list of the keys of map_ taken
\* before extra_map is merged into it
MapTranslationInit(map_, min_chars, max_chars, extra_map) ==
    [min_chars |-> min_chars, max_chars |-> max_chars,
     allowed_chars |-> DOMAIN map_,
     map |-> IF extra_map # EmptyDict THEN DictUpdate(map_, extra_map) ELSE map_]

\* the outcome of a translate_chars call: the exception it raises ("" for none),
\* the value it returns, and self.code after the call
Return(v, cd) == [exc |-> "", ret |-> v, code |-> cd]
Raise(e, cd) == [exc |-> e, ret |-> PyNone, code |-> cd]

\* Translation.translate_chars
Translation_translate_chars(chars, cd) == Return(PyNotImplemented, cd)

\* MapTranslation.translate_chars
MapTranslation_translate_chars(c, chars, cd) ==
    IF Len(chars) < c.min_chars THEN Return(PyNone, cd)
    ELSE IF Len(chars) > c.max_chars THEN Raise("TranslationError", cd)
    ELSE IF chars \notin c.allowed_chars THEN Raise("TranslationError", cd)
    ELSE Return(DictGet(c.map, chars), cd)

ASCII_7BITS == [i \in 1..128 |-> i - 1]

\* CODE_A_TABLE with the control characters put first
CODE_A_TABLE_ControlsFirst == SubSeq(ASCII_7BITS, 1, 32) \o SubSeq(ASCII_7BITS, 33, 96)

CODE_A_TABLE == SubSeq(ASCII_7BITS, 33, 96) \o SubSeq(ASCII_7BITS, 1, 32)
CODE_B_TABLE == SubSeq(ASCII_7BITS, 33, 128)
CODE_TABLES(cd) == IF cd = "A" THEN CODE_A_TABLE ELSE CODE_B_TABLE

\* str.index: the lowest position of the character, ValueError when it is absent
index(table, ch) ==
    IF \E i \in 1..Len(table) : table[i] = ch
    THEN [exc |-> "",
          ret |-> PyInt((CHOOSE i \in 1..Len(table) :
                            /\ table[i] = ch
                            /\ \A j \in 1..(i - 1) : table[j] # ch) - 1)]
    ELSE [exc |-> "ValueError", ret |-> PyNone]

\* EscapeCode with 102 taken for a shift to code set A
EscapeCode_Also102(ordinal, cd) ==
    IF ordinal \in {99, 105} THEN "C"
    ELSE IF ordinal \in {100, 104} THEN "B"
    ELSE IF ordinal \in {101, 102, 103} THEN "A"
    ELSE cd

\* EscapeCode with the code sets of 100/104 and 101/103 exchanged
EscapeCode_SwapsAB(ordinal, cd) ==
    IF ordinal \in {99, 105} THEN "C"
    ELSE IF ordinal \in {100, 104} THEN "A"
    ELSE IF ordinal \in {101, 103} THEN "B"
    ELSE cd

\* the assignment to self.code made for a recognised escape ordinal
EscapeCode(ordinal, cd) ==
    IF ordinal \in {99, 105} THEN "C"
    ELSE IF ordinal \in {100, 104} THEN "B"
    ELSE IF ordinal \in {101, 103} THEN "A"
    ELSE cd

\* EscapeOrdinal with a range that also takes 108
EscapeOrdinal_Takes108(escaped, cd) ==
    LET ordinal == DecValue(escaped)
    IN  IF ordinal < 96 THEN Return(PyNone, cd)
        ELSE IF ordinal \in 96..108 THEN Return(PyInt(ordinal), EscapeCode(ordinal, cd))
        ELSE Raise("TranslationError", cd)

\* the branch of Code128Translation.translate_chars for an escape in digits
EscapeOrdinal(escaped, cd) ==
    LET ordinal == DecValue(escaped)
    IN  IF ordinal < 96 THEN Return(PyNone, cd)
        ELSE IF ordinal \in 96..107 THEN Return(PyInt(ordinal), EscapeCode(ordinal, cd))
        ELSE Raise("TranslationError", cd)

\* Escape without the test for a second '^'
Escape_NoLiteralCaret(chars, cd) ==
    IF Len(chars) = 1 THEN Return(PyNone, cd)
    ELSE LET escaped == Tail(chars)
         IN  IF isdigit(escaped) THEN EscapeOrdinal(escaped, cd)
             ELSE Raise("TranslationError", cd)

\* the branch of Code128Translation.translate_chars for chars[0] = '^'
Escape(chars, cd) ==
    IF Len(chars) = 1 THEN Return(PyNone, cd)
    ELSE IF chars[2] = ord("^") THEN Return(PyInt(62), cd)
    ELSE LET escaped == Tail(chars)
         IN  IF isdigit(escaped) THEN EscapeOrdinal(escaped, cd)
             ELSE Raise("TranslationError", cd)

\* the branch for code set A or B: only IndexError is turned into a
\* TranslationError, whatever else index raises leaves translate_chars as it is
TableLookup(chars, cd) ==
    LET r == index(CODE_TABLES(cd), chars[1])
    IN  IF r.exc = "IndexError" THEN Raise("TranslationError", cd)
        ELSE IF r.exc # "" THEN Raise(r.exc, cd)
        ELSE Return(r.ret, cd)

\* DigitPair that converts whatever is queued, one character included
DigitPair_NoLengthTest(chars, cd) ==
    LET r == int10(chars)
    IN  IF r.exc # "" THEN Raise(r.exc, cd) ELSE Return(r.ret, cd)

\* the branch for code set C
DigitPair(chars, cd) ==
    IF Len(chars) = 2
    THEN LET r == int10(chars)
         IN  IF r.exc # "" THEN Raise(r.exc, cd) ELSE Return(r.ret, cd)
    ELSE Return(PyNone, cd)

\* Code128Translation.translate_chars
Code128Translation_translate_chars(chars, cd) ==
    IF chars[1] = ord("^") THEN Escape(chars, cd)
    ELSE IF cd \in {"A", "B"} THEN TableLookup(chars, cd)
    ELSE IF cd = "C" THEN DigitPair(chars, cd)
    ELSE Return(PyNone, cd)

\* self.translate_chars(queue), dispatched on the class of self
translate_chars(k, c, chars, cd) ==
    CASE k = "Translation" -> Translation_translate_chars(chars, cd)
      [] k = "MapTranslation" -> MapTranslation_translate_chars(c, chars, cd)
      [] k = "Code128Translation" -> Code128Translation_translate_chars(chars, cd)

\* reset(): Translation.reset does nothing, Code128Translation.reset clears code
reset(k, cd) == IF k = "Code128Translation" THEN "None" ELSE cd

----------------------------------------------------------------------------
(* The driver: Translation.translate *)

\* the symbolic singletons, and the other values on_error is called with
RAISE_ON_ERROR == [t |-> "RAISE_ON_ERROR", v |-> 0]
IGNORE_ON_ERROR == [t |-> "IGNORE_ON_ERROR", v |-> 0]
Replacement == PyStr(ord("#"))
Policies == {RAISE_ON_ERROR, IGNORE_ON_ERROR, PyNone, Replacement}

\* OnTranslationError with the replacement branch not clearing the queue
OnTranslationError_KeepsQueue(pol, q) ==
    IF pol = RAISE_ON_ERROR THEN [raise |-> TRUE, queue |-> q, yield |-> <<>>]
    ELSE IF pol = IGNORE_ON_ERROR THEN [raise |-> FALSE, queue |-> <<>>, yield |-> <<>>]
    ELSE IF pol # PyNone THEN [raise |-> FALSE, queue |-> q, yield |-> <<pol>>]
    ELSE [raise |-> FALSE, queue |-> <<>>, yield |-> <<>>]

\* OnTranslationError without the test for RAISE_ON_ERROR
OnTranslationError_NeverRaises(pol, q) ==
    IF pol = IGNORE_ON_ERROR THEN [raise |-> FALSE, queue |-> <<>>, yield |-> <<>>]
    ELSE IF pol # PyNone THEN [raise |-> FALSE, queue |-> <<>>, yield |-> <<pol>>]
    ELSE [raise |-> FALSE, queue |-> <<>>, yield |-> <<>>]

\* the except TranslationError clause: whether the exception is raised again,
\* the queue after the clause and what the clause yields
OnTranslationError(pol, q) ==
    IF pol = RAISE_ON_ERROR THEN [raise |-> TRUE, queue |-> q, yield |-> <<>>]
    ELSE IF pol = IGNORE_ON_ERROR THEN [raise |-> FALSE, queue |-> <<>>, yield |-> <<>>]
    ELSE IF pol # PyNone THEN [raise |-> FALSE, queue |-> <<>>, yield |-> <<pol>>]
    ELSE [raise |-> FALSE, queue |-> <<>>, yield |-> <<>>]

\* OnOrdinal that yields without clearing the queue
OnOrdinal_KeepsQueue(ordinal, q) ==
    IF ordinal = PyNone THEN [exc |-> "", queue |-> q, yield |-> <<>>]
    ELSE IF ordinal = PyNotImplemented THEN [exc |-> "TypeError", queue |-> q, yield |-> <<>>]
    ELSE [exc |-> "", queue |-> q, yield |-> <<ordinal>>]

\* OnOrdinal without the test for NotImplemented
OnOrdinal_YieldsNotImplemented(ordinal, q) ==
    IF ordinal = PyNone THEN [exc |-> "", queue |-> q, yield |-> <<>>]
    ELSE [exc |-> "", queue |-> <<>>, yield |-> <<ordinal>>]

\* the if/elif/else on ordinal that ends the loop body
OnOrdinal(ordinal, q) ==
    IF ordinal = PyNone THEN [exc |-> "", queue |-> q, yield |-> <<>>]
    ELSE IF ordinal = PyNotImplemented THEN [exc |-> "TypeError", queue |-> q, yield |-> <<>>]
    ELSE [exc |-> "", queue |-> <<>>, yield |-> <<ordinal>>]

\* one pass of the for loop of translate() for the character ch: the exception
\* that leaves the generator ("" for none), the queue and self.code after the
\* pass, the values yielded during it, and the translate_chars call it made
LoopBody(k, c, cd, q, pol, ch) ==
    LET q1 == Append(q, ch)
        r == translate_chars(k, c, q1, cd)
        call == [chars |-> q1, code |-> cd, exc |-> r.exc, ret |-> r.ret]
    IN  IF r.exc = "TranslationError"
        THEN LET h == OnTranslationError(pol, q1)
             IN  IF h.raise
                 THEN [exc |-> r.exc, queue |-> h.queue, code |-> r.code,
                       yield |-> <<>>, call |-> call]
                 ELSE LET o == OnOrdinal(PyNone, h.queue)
                      IN  [exc |-> o.exc, queue |-> o.queue, code |-> r.code,
                           yield |-> h.yield \o o.yield, call |-> call]
        ELSE IF r.exc # ""
        THEN [exc |-> r.exc, queue |-> q1, code |-> r.code, yield |-> <<>>, call |-> call]
        ELSE LET o == OnOrdinal(r.ret, q1)
             IN  [exc |-> o.exc, queue |-> o.queue, code |-> r.code,
                  yield |-> o.yield, call |-> call]

----------------------------------------------------------------------------
(* Translator instances and messages *)

Kinds == {"Translation", "MapTranslation", "Code128Translation"}

NoCfg == MapTranslationInit(EmptyDict, 1, 1, EmptyDict)

\* the MapTranslation instances: the one of the doctest (and of digits, with a
\* leading '+'), one whose alphabet has a skip character, one with an extra_map
MapConfigs ==
    { MapTranslationInit(charmap(S(<<"+","0","1","2","3","4","5","6","7","8","9">>), 0, <<>>),
                         1, 1, EmptyDict),
      MapTranslationInit(charmap(S(<<"0","*","1","*","2","*","3","*","4">>), 100, S(<<"*">>)),
                         1, 1, EmptyDict),
      MapTranslationInit(charmap(S(<<"0","1","2">>), 0, <<>>), 1, 1,
                         charmap(S(<<"1","x">>), 7, <<>>)) }

Configs(k) == IF k = "MapTranslation" THEN MapConfigs ELSE {NoCfg}

\* the characters a streamed message is made of
Alphabet(k) ==
    IF k = "Code128Translation"
    THEN {ord("^"), ord("1"), ord("0"), ord("9"), ord("A"), ord("a")}
    ELSE {ord("1"), ord("2"), ord("x"), ord("*")}

\* literal messages for a MapTranslation or a Translation
MapMessages ==
    { S(<<"1","2","3","4","x","x">>),
      S(<<"+","+","+","1","3","5","7","+","+","+">>),
      S(<<"*">>), S(<<"0","*","1">>), S(<<"4","*","x","2">>) }

\* the characters the pairs read in code set C are made of: the digits, '^',
\* a letter, NUL, and what int() accepts around digits
PairChars ==
    (ord("0")..ord("9")) \cup {ord("^"), ord("A"), ord("NUL"), ord(" "), ord("+"), ord("-")}

\* literal messages for a Code128Translation: those of the doctests, every
\* escape ^v in every code set, alone and followed by text, every escape with
\* a leading zero, every 7-bit character after a shift to code set A, B or C,
\* ^^ in every code set, and every pair of PairChars in code set C
Shifts == {<<>>, S(<<"^","1","0","3">>), S(<<"^","1","0","4">>), S(<<"^","1","0","5">>)}

Code128Messages ==
    { S(<<"^","1","0","3","A","Z","_","^","^","_","NUL","SOH","STX">>),
      S(<<"^","1","0","4","A","Z","_","^","^","_","GRAVE","a","b">>),
      S(<<"^","1","0","5","^","1","0","2","^">>),
      S(<<"^","1","0","5","^","1","0","2","1","2","3","4","5","6","^","1","0","0","A","1">>),
      S(<<"^","1","0","5","^","X">>),
      S(<<"^","1","0","5","^","X","^","1","0","2">>),
      S(<<"A","^","1","0","3","A">>),
      S(<<"^","1","0","3","a","A">>),
      S(<<"^","1","0","4","SOH","A">>),
      S(<<"^","2","0","0">>), S(<<"^","2","0","0","^","1","0","3","A">>) }
    \cup { sh \o <<ord("^")>> \o str(v) \o tail :
             sh \in Shifts, v \in 0..MaxEscape,
             tail \in {<<>>, S(<<"A">>), S(<<"1","2">>)} }
    \cup { S(<<"^","0">>) \o str(v) : v \in 0..MaxEscape }
    \cup { sh \o <<ch>> \o S(<<"A">>) : sh \in Shifts \ {<<>>}, ch \in 0..127 }
    \cup { sh \o S(<<"^","^">>) \o tail : sh \in Shifts, tail \in {<<>>, S(<<"A">>)} }
    \cup { S(<<"^","1","0","5">>) \o <<c1, c2>> \o S(<<"1","2">>) :
             c1 \in PairChars \ {ord("^")}, c2 \in PairChars }

Messages(k) == IF k = "Code128Translation" THEN Code128Messages ELSE MapMessages

NoCall == [chars |-> <<>>, code |-> "None", exc |-> "", ret |-> PyNone, yield |-> <<>>]

\* no second generator
NoOther ==
    [pc |-> "none", shared |-> FALSE, yielded |-> FALSE, code |-> "None", on_error |-> PyNone,
     message |-> <<>>, consumed |-> <<>>, queue |-> <<>>, out |-> <<>>, err |-> ""]

----------------------------------------------------------------------------
(* The state machine *)

\* a translator instance has been constructed, translate() not yet called
Init ==
    /\ kind \in Kinds
    /\ cfg \in Configs(kind)
    /\ code = "None"
    /\ pc = "none"
    /\ on_error = PyNone
    /\ message = <<>>
    /\ streamed = FALSE
    /\ consumed = <<>>
    /\ queue = <<>>
    /\ out = <<>>
    /\ err = ""
    /\ last = NoCall
    /\ runs = <<>>
    /\ lastop = ""
    /\ other = NoOther

\* translate(message, on_error): returns a generator, runs none of its body
Translate ==
    /\ pc = "none"
    /\ on_error' \in Policies
    /\ \E m \in Messages(kind) \cup {<<>>} :
         /\ message' = m
         /\ streamed' = (m = <<>>)
    /\ pc' = "created"
    /\ runs' = Append(runs, code)
    /\ lastop' = "translate"
    /\ UNCHANGED <<kind, cfg, code, consumed, queue, out, err, last, other>>

\* Begin without the call of self.reset()
Begin_NoReset ==
    /\ pc = "created"
    /\ queue' = <<>>
    /\ pc' = "running"
    /\ lastop' = "begin"
    /\ UNCHANGED <<kind, cfg, code, on_error, message, streamed, consumed, out, err, last,
                   runs, other>>

\* the first next() on the generator: self.reset() and queue = ''
Begin ==
    /\ pc = "created"
    /\ code' = reset(kind, code)
    /\ queue' = <<>>
    /\ pc' = "running"
    /\ lastop' = "begin"
    /\ UNCHANGED <<kind, cfg, on_error, message, streamed, consumed, out, err, last, runs, other>>

\* the characters the message can produce next
NextChars ==
    IF streamed
    THEN IF Len(consumed) < MaxLen THEN Alphabet(kind) ELSE {}
    ELSE IF message # <<>> THEN {Head(message)} ELSE {}

\* one pass of the for loop
Step ==
    /\ pc = "running"
    /\ \E ch \in NextChars :
         LET b == LoopBody(kind, cfg, code, queue, on_error, ch)
         IN  /\ consumed' = Append(consumed, ch)
             /\ message' = IF streamed THEN message ELSE Tail(message)
             /\ queue' = b.queue
             /\ code' = b.code
             /\ out' = out \o b.yield
             /\ err' = b.exc
             /\ pc' = IF b.exc = "" THEN "running" ELSE "raised"
             /\ last' = [chars |-> b.call.chars, code |-> b.call.code, exc |-> b.call.exc,
                          ret |-> b.call.ret, yield |-> b.yield]
    /\ lastop' = "step"
    /\ UNCHANGED <<kind, cfg, on_error, streamed, runs, other>>

\* Finish that raises for characters left in the queue
Finish_RaisesOnPending ==
    /\ pc = "running"
    /\ streamed \/ message = <<>>
    /\ pc' = IF queue = <<>> THEN "done" ELSE "raised"
    /\ err' = IF queue = <<>> THEN err ELSE "TranslationError"
    /\ lastop' = "finish"
    /\ UNCHANGED <<kind, cfg, code, on_error, message, streamed, consumed, queue, out, last,
                   runs, other>>

\* the message is exhausted: the generator returns
Finish ==
    /\ pc = "running"
    /\ streamed \/ message = <<>>
    /\ pc' = "done"
    /\ lastop' = "finish"
    /\ UNCHANGED <<kind, cfg, code, on_error, message, streamed, consumed, queue, out, err, last,
                   runs, other>>

Next == Translate \/ Begin \/ Step \/ Finish

Spec == Init /\ [][Next]_vars

----------------------------------------------------------------------------
(* Several runs on one instance, and reset() called by the caller *)

\* the generator is not running: it has not started, is suspended at a yield,
\* or has ended
Suspended ==
    \/ pc \in {"created", "done", "raised"}
    \/ pc = "running" /\ last.yield # <<>>

\* code of the caller can run: the generator is suspended, or is reading a
\* message that is an iterable of the caller
CallerHasControl == Suspended \/ (pc = "running" /\ streamed)

\* the messages of the runs that are strings
RunMessages(k) ==
    IF k = "Code128Translation"
    THEN { S(<<"A","1">>), S(<<"1","2">>), S(<<"^","^","A">>),
           S(<<"^","1","0","4","a","^","9","9","1","2">>),
           S(<<"^","1","0","5","^","1","0","2","1","2">>) }
    ELSE { S(<<"1","x","2">>) }

\* translate() is called on the instance, for the first time with a string or
\* an iterable of the caller and later with a string and the same on_error;
\* the generator of the run before is left where it is and never resumed
TranslateRun ==
    /\ pc = "none" \/ Suspended
    /\ Len(runs) < MaxRuns
    /\ on_error' \in (IF runs = <<>> THEN Policies ELSE {on_error})
    /\ \E m \in RunMessages(kind) \cup (IF runs = <<>> THEN {<<>>} ELSE {}) :
         /\ message' = m
         /\ streamed' = (m = <<>>)
    /\ pc' = "created"
    /\ consumed' = <<>>
    /\ queue' = <<>>
    /\ out' = <<>>
    /\ err' = ""
    /\ last' = NoCall
    /\ runs' = Append(runs, code)
    /\ lastop' = "translate"
    /\ UNCHANGED <<kind, cfg, code, other>>

\* the caller calls reset() on the instance
Reset ==
    /\ CallerHasControl
    /\ code' = reset(kind, code)
    /\ lastop' = "reset"
    /\ UNCHANGED <<kind, cfg, pc, on_error, message, streamed, consumed, queue, out, err, last,
                   runs, other>>

NextAgain == TranslateRun \/ Begin \/ Step \/ Finish

SpecAgain == Init /\ [][NextAgain]_vars

NextRuns == TranslateRun \/ Begin \/ Step \/ Finish \/ Reset

SpecRuns == Init /\ [][NextRuns]_vars

----------------------------------------------------------------------------
(* Two generators pulled in alternation *)

\* the messages of the two generators
TwoMessages ==
    { S(<<"^","1","0","3","A","A">>), S(<<"A">>), S(<<"^","1","0","4","a">>),
      S(<<"^","1","0","5","1","2","^","1","0","1","A">>) }

\* translate() is called twice, on one instance (shared) or on two instances
\* of Code128Translation
TranslateBoth ==
    /\ pc = "none"
    /\ kind = "Code128Translation"
    /\ on_error' \in Policies
    /\ message' \in TwoMessages
    /\ streamed' = FALSE
    /\ pc' = "created"
    /\ \E sh \in BOOLEAN, pol \in Policies, m \in TwoMessages :
         /\ other' = [NoOther EXCEPT !.pc = "created", !.shared = sh, !.on_error = pol,
                                      !.message = m]
         /\ runs' = IF sh THEN <<code, code>> ELSE <<code>>
    /\ lastop' = "translate"
    /\ UNCHANGED <<kind, cfg, code, consumed, queue, out, err, last>>

\* the second generator is not running
Suspended2 == other.pc \in {"none", "created", "done", "raised"} \/ other.yielded

\* self.code with the code set held by the class, one for all instances
SelfCode2_ClassAttribute == code

\* self.code as the second generator reads it: of the instance of the first
\* generator when they share it, of its own instance otherwise
SelfCode2 == IF other.shared THEN code ELSE other.code

\* the first next() on the second generator: self.reset() and queue = ''
Begin2 ==
    /\ other.pc = "created"
    /\ Suspended
    /\ LET cd == reset(kind, SelfCode2)
       IN  /\ other' = [other EXCEPT !.pc = "running", !.queue = <<>>, !.yielded = FALSE,
                                      !.code = IF other.shared THEN @ ELSE cd]
           /\ code' = IF other.shared THEN cd ELSE code
    /\ lastop' = "begin2"
    /\ UNCHANGED <<kind, cfg, pc, on_error, message, streamed, consumed, queue, out, err,
                   last, runs>>

\* the second generator after a pass of its loop with the outcome b
Pass2(b) ==
    /\ other' = [other EXCEPT !.pc = IF b.exc = "" THEN "running" ELSE "raised",
                               !.err = b.exc, !.queue = b.queue,
                               !.message = Tail(@),
                               !.consumed = Append(@, Head(other.message)),
                               !.out = @ \o b.yield,
                               !.yielded = (b.yield # <<>>),
                               !.code = IF other.shared THEN @ ELSE b.code]
    /\ code' = IF other.shared THEN b.code ELSE code

\* one pass of the for loop of the second generator
Step2 ==
    /\ other.pc = "running"
    /\ Suspended
    /\ other.message # <<>>
    /\ Pass2(LoopBody(kind, cfg, SelfCode2, other.queue, other.on_error, Head(other.message)))
    /\ lastop' = "step2"
    /\ UNCHANGED <<kind, cfg, pc, on_error, message, streamed, consumed, queue, out, err,
                   last, runs>>

\* the message of the second generator is exhausted: its loop ends
Finish2 ==
    /\ other.pc = "running"
    /\ Suspended
    /\ other.message = <<>>
    /\ other' = [other EXCEPT !.pc = "done"]
    /\ lastop' = "finish2"
    /\ UNCHANGED <<kind, cfg, code, pc, on_error, message, streamed, consumed, queue, out,
                   err, last, runs>>

\* one generator runs at a time: the consumer pulls one of them when both are
\* suspended, and a pull runs up to the next yield or the end
NextTwo ==
    \/ TranslateBoth
    \/ (Suspended2 /\ Begin)
    \/ (Suspended2 /\ Step)
    \/ (Suspended2 /\ Finish)
    \/ Begin2
    \/ Step2
    \/ Finish2

SpecTwo == Init /\ [][NextTwo]_vars

\* the run of translate() over the characters s on a fresh instance: the
\* exception that ended it, self.code, the queue and the values yielded
RECURSIVE FreshRun(_, _, _, _)
FreshRun(k, c, pol, s) ==
    IF s = <<>> THEN [exc |-> "", code |-> "None", queue |-> <<>>, out |-> <<>>]
    ELSE LET p == FreshRun(k, c, pol, SubSeq(s, 1, Len(s) - 1))
             b == LoopBody(k, c, p.code, p.queue, pol, s[Len(s)])
         IN  IF p.exc # "" THEN p
             ELSE [exc |-> b.exc, code |-> b.code, queue |-> b.queue, out |-> p.out \o b.yield]

----------------------------------------------------------------------------
(* Vocabulary of the properties *)

\* a pass of the loop has run
Called == last.chars # <<>>

\* the three outcomes of the resolver
Unresolvable == Called /\ last.exc = "TranslationError"
Pending == Called /\ last.exc = "" /\ last.ret = PyNone
Resolved(v) == Called /\ last.exc = "" /\ last.ret = PyInt(v)

\* the policies
Ignoring == on_error \in {IGNORE_ON_ERROR, PyNone}
Replacing == on_error = Replacement
Raising == on_error = RAISE_ON_ERROR

Ints(t) == [i \in 1..Len(t) |-> PyInt(t[i])]

\* the doctest's map, charmap('+0123456789')
DoctestMap ==
    MapTranslationInit(charmap(S(<<"+","0","1","2","3","4","5","6","7","8","9">>), 0, <<>>),
                       1, 1, EmptyDict)

\* a direct map whose units are single characters
SingleCharMap == kind = "MapTranslation" /\ cfg.min_chars = 1 /\ cfg.max_chars = 1

\* a known character of the map with an ordinal, and that ordinal
HasOrdinal(ch) == <<ch>> \in cfg.allowed_chars /\ DictGet(cfg.map, <<ch>>) # PyNone
RECURSIVE KnownOrdinals(_)
KnownOrdinals(s) ==
    IF s = <<>> THEN <<>>
    ELSE (IF HasOrdinal(Head(s)) THEN <<DictGet(cfg.map, <<Head(s)>>)>> ELSE <<>>)
         \o KnownOrdinals(Tail(s))

\* the doctests of the module, as far as they run translate()
Doctests ==
    /\ (cfg = DoctestMap /\ Ignoring /\ pc = "done"
          /\ consumed = S(<<"+","+","+","1","3","5","7","+","+","+">>)) =>
          out = Ints(<<0, 0, 0, 2, 4, 6, 8, 0, 0, 0>>)
    /\ (kind = "Translation" /\ Len(consumed) = 1) => (pc = "raised" /\ err = "TypeError")
    /\ (kind = "Code128Translation" /\ Raising /\ pc = "done"
          /\ consumed = S(<<"^","1","0","3","A","Z","_","^","^","_","NUL","SOH","STX">>)) =>
          out = Ints(<<103, 33, 58, 63, 62, 63, 64, 65, 66>>)
    /\ (kind = "Code128Translation" /\ Raising /\ pc = "done"
          /\ consumed = S(<<"^","1","0","4","A","Z","_","^","^","_","GRAVE","a","b">>)) =>
          out = Ints(<<104, 33, 58, 63, 62, 63, 64, 65, 66>>)
    /\ (kind = "Code128Translation" /\ Raising /\ pc = "done"
          /\ consumed = S(<<"^","1","0","5","^","1","0","2","^">>)) =>
          out = Ints(<<105, 102>>)
    /\ (kind = "Code128Translation" /\ Raising /\ pc = "done"
          /\ consumed = S(<<"^","1","0","5","^","1","0","2","1","2","3","4","5","6",
                            "^","1","0","0","A","1">>)) =>
          out = Ints(<<105, 102, 12, 34, 56, 100, 33, 17>>)
    /\ (kind = "Code128Translation" /\ Raising
          /\ consumed = S(<<"^","1","0","5","^","X">>)) =>
          (pc = "raised" /\ err = "TranslationError")

DoctestsRun ==
    /\ kind = "Code128Translation" /\ Raising /\ pc = "done"
    /\ Len(consumed) = 20

----------------------------------------------------------------------------
(* C1 *)

\* C1: under the Ignore policy (explicit or default) every unresolvable queue
\* is cleared, nothing is emitted for it and the run goes on; so for a
\* single-character direct map the output is exactly the ordinals of the known
\* characters of the message in their order ('1234xx' gives [2,3,4,5]), and for
\* Code 128 '^105^X^102' gives [105,102].
C1_IgnoreYieldsKnownOrdinals ==
    /\ (Ignoring /\ Unresolvable) =>
          (queue = <<>> /\ last.yield = <<>> /\ err = "" /\ pc \in {"running", "done"})
    /\ (Ignoring /\ SingleCharMap) => out = KnownOrdinals(consumed)
    /\ (Ignoring /\ cfg = DoctestMap /\ consumed = S(<<"1","2","3","4","x","x">>)) =>
          out = Ints(<<2, 3, 4, 5>>)
    /\ (Ignoring /\ kind = "Code128Translation"
          /\ consumed = S(<<"^","1","0","5","^","X","^","1","0","2">>)) =>
          out = Ints(<<105, 102>>)

\* the part of C1 that is about the driver alone
C1_IgnoreClearsQueue ==
    /\ (Ignoring /\ Unresolvable) =>
          (queue = <<>> /\ last.yield = <<>> /\ err = "" /\ pc \in {"running", "done"})
    /\ (Ignoring /\ cfg = DoctestMap) => out = KnownOrdinals(consumed)
    /\ (Ignoring /\ kind = "Code128Translation"
          /\ consumed = S(<<"^","1","0","5","^","X","^","1","0","2">>)) =>
          out = Ints(<<105, 102>>)

----------------------------------------------------------------------------
(* C2 *)

\* what Replace expects of a message without pending units: the ordinal of
\* every known character, the replacement for every other character
ReplacedOrdinals(s) ==
    [i \in 1..Len(s) |-> IF <<s[i]>> \in cfg.allowed_chars
                         THEN DictGet(cfg.map, <<s[i]>>) ELSE Replacement]

\* C2: under Replace(unit) every unresolvable queue is cleared and replaced by
\* exactly one unit at its position in the output, and the run goes on; the
\* ordinals resolved before and after keep their order ('1234xx' with
\* Replace('#') gives [2,3,4,5,'#','#']).
C2_ReplaceYieldsUnit ==
    /\ (Replacing /\ Unresolvable) =>
          /\ queue = <<>>
          /\ last.yield = <<Replacement>>
          /\ out # <<>> /\ out[Len(out)] = Replacement
          /\ err = "" /\ pc \in {"running", "done"}
    /\ (Replacing /\ Called /\ ~Unresolvable) => Replacement \notin {last.yield[i] : i \in 1..Len(last.yield)}
    /\ (Replacing /\ cfg = DoctestMap) => out = ReplacedOrdinals(consumed)
    /\ (Replacing /\ cfg = DoctestMap /\ consumed = S(<<"1","2","3","4","x","x">>)) =>
          out = Ints(<<2, 3, 4, 5>>) \o <<Replacement, Replacement>>

\* an unknown character has been replaced between two resolved ones
C2_Witness ==
    /\ Replacing /\ cfg = DoctestMap /\ pc = "done"
    /\ consumed = S(<<"1","x","2">>)
    /\ out = <<PyInt(2), Replacement, PyInt(3)>>

----------------------------------------------------------------------------
(* C3 *)

\* C3: under Raise the first unresolvable queue ends the generator with a
\* TranslationError: the ordinals resolved before it have been yielded in
\* order, nothing is yielded for the failing unit, and nothing is yielded
\* afterwards (the generator has ended and no pass of the loop follows).
C3_RaiseHalts ==
    /\ (Raising /\ Unresolvable) =>
          /\ pc = "raised" /\ err = "TranslationError"
          /\ last.yield = <<>>
          /\ queue = last.chars
    /\ (Raising /\ Called /\ ~Unresolvable) => err # "TranslationError"
    /\ err = "TranslationError" => (Raising /\ Unresolvable /\ pc = "raised")
    /\ Raising => \A i \in 1..Len(out) : out[i].t = "int"
    /\ (Raising /\ cfg = DoctestMap) =>
          /\ out = KnownOrdinals(consumed)
          /\ \A i \in 1..(Len(consumed) - 1) : HasOrdinal(consumed[i])
          /\ Len(out) \in {Len(consumed), Len(consumed) - 1}
          /\ pc = "raised" <=> (consumed # <<>> /\ ~HasOrdinal(consumed[Len(consumed)]))

\* the doctest: '1234xx' fails at the first x after 2,3,4,5
C3_Witness ==
    /\ Raising /\ cfg = DoctestMap /\ pc = "raised" /\ err = "TranslationError"
    /\ consumed = S(<<"1","2","3","4","x">>)
    /\ message = S(<<"x">>)
    /\ out = Ints(<<2, 3, 4, 5>>)

----------------------------------------------------------------------------
(* C4 *)

\* the skip character of the map, when it has one
IsSkip(ch) == <<ch>> \in cfg.allowed_chars /\ DictGet(cfg.map, <<ch>>) = PyNone

\* C4: for a direct map whose alphabet has a skip character, the resolver
\* resolves the skip character to the 'no value' sentinel: the sentinel is
\* yielded, the queue is cleared, and the characters after it are translated
\* as after any other resolved unit.
C4_SkipYieldsSentinel ==
    (SingleCharMap /\ Called /\ Len(last.chars) = 1 /\ IsSkip(last.chars[1])) =>
        (queue = <<>> /\ last.yield = <<PyNone>>)

----------------------------------------------------------------------------
(* C5 *)

IsCode128 == kind = "Code128Translation"
Caret == ord("^")
StartsWithCaret == Called /\ last.chars[1] = Caret

\* C5: with no code set active, a queue that does not start with '^' is
\* unresolvable: under Raise the run fails at that character, under Ignore and
\* Replace the queue is cleared, so that a later escape is still recognised
\* ('A^103A' resolves 103 and then A).
C5_NoCodeSetIsUnresolvable ==
    /\ (IsCode128 /\ Called /\ last.code = "None" /\ ~StartsWithCaret) =>
          /\ Unresolvable
          /\ Raising => (pc = "raised" /\ err = "TranslationError")
          /\ ~Raising => queue = <<>>
    /\ (IsCode128 /\ Ignoring /\ consumed = S(<<"A","^","1","0","3","A">>)) =>
          out = Ints(<<103, 33>>)

----------------------------------------------------------------------------
(* C6 *)

InTable(ch, cd) == \E i \in 1..Len(CODE_TABLES(cd)) : CODE_TABLES(cd)[i] = ch

\* a plain character looked up in code set A or B
PlainLookup == IsCode128 /\ Called /\ last.code \in {"A", "B"} /\ ~StartsWithCaret

\* C6: in code set A or B a plain character that is not in the active table is
\* unresolvable, an error of the data that the policy decides: dropped under
\* Ignore, replaced under Replace, and ending the run only under Raise.
C6_NotInTableIsUnresolvable ==
    (PlainLookup /\ ~InTable(last.chars[1], last.code)) =>
        /\ Unresolvable
        /\ Ignoring => (queue = <<>> /\ last.yield = <<>> /\ pc \in {"running", "done"})
        /\ Replacing => (queue = <<>> /\ last.yield = <<Replacement>>
                            /\ pc \in {"running", "done"})
        /\ Raising => (pc = "raised" /\ err = "TranslationError")

----------------------------------------------------------------------------
(* C7 *)

\* the queue of the latest call is '^' followed by decimal digits of value v
EscapeOf(v) ==
    /\ IsCode128 /\ StartsWithCaret /\ Len(last.chars) >= 2
    /\ isdigit(Tail(last.chars))
    /\ DecValue(Tail(last.chars)) = v

\* C7: an escape ^v with v in 96..107 resolves to v at the call whose queue
\* reads '^' and the digits of v; 99 and 105 set code set C, 100 and 104 set B,
\* 101 and 103 set A, and 96, 97, 98, 102, 106, 107 leave the code set as it was.
C7_EscapeResolvesAndShifts ==
    LET v == DecValue(Tail(last.chars))
    IN  (IsCode128 /\ StartsWithCaret /\ Len(last.chars) >= 2
            /\ isdigit(Tail(last.chars)) /\ v \in 96..107) =>
            /\ Resolved(v) /\ last.yield = <<PyInt(v)>> /\ queue = <<>>
            /\ v \in {99, 105} => code = "C"
            /\ v \in {100, 104} => code = "B"
            /\ v \in {101, 103} => code = "A"
            /\ v \in {96, 97, 98, 102, 106, 107} => code = last.code

\* ^104 resolved in code set A has switched to code set B
C7_Witness == EscapeOf(104) /\ last.code = "A" /\ code = "B" /\ Resolved(104)

----------------------------------------------------------------------------
(* C8 *)

\* C8: for a queue that starts with '^', is at least two long and is not '^^':
\* a remainder that is not all digits is unresolvable, a decimal value below
\* 96 is pending, a value above 107 is unresolvable ('^200' fails at its third
\* digit under Raise).
C8_EscapeOutOfRange ==
    /\ (IsCode128 /\ StartsWithCaret /\ Len(last.chars) >= 2
            /\ last.chars # <<Caret, Caret>>) =>
          /\ ~isdigit(Tail(last.chars)) => Unresolvable
          /\ (isdigit(Tail(last.chars)) /\ DecValue(Tail(last.chars)) < 96) =>
                (Pending /\ queue = last.chars /\ last.yield = <<>>)
          /\ (isdigit(Tail(last.chars)) /\ DecValue(Tail(last.chars)) > 107) => Unresolvable
    /\ (IsCode128 /\ Raising /\ ~streamed /\ consumed \o message = S(<<"^","2","0","0">>)) =>
          /\ pc = "raised" => (consumed = S(<<"^","2","0","0">>) /\ err = "TranslationError")
          /\ consumed = S(<<"^","2","0","0">>) => pc = "raised"
          /\ out = <<>>

\* '^200' has failed under Raise at its third digit
C8_Witness ==
    /\ IsCode128 /\ Raising /\ pc = "raised" /\ err = "TranslationError"
    /\ consumed = S(<<"^","2","0","0">>) /\ out = <<>>
    /\ EscapeOf(200)

----------------------------------------------------------------------------
(* C9 *)

\* C9: '^^' resolves to 62 in every code set (None, A, B, C) and leaves the
\* code set unchanged; a lone '^' is pending.
C9_CaretCaret ==
    /\ (IsCode128 /\ Called /\ last.chars = <<Caret, Caret>>) =>
          (Resolved(62) /\ last.yield = <<PyInt(62)>> /\ queue = <<>> /\ code = last.code)
    /\ (IsCode128 /\ Called /\ last.chars = <<Caret>>) =>
          (Pending /\ queue = <<Caret>> /\ last.yield = <<>> /\ code = last.code)

\* '^^' has been resolved in code set C
C9_Witness ==
    /\ IsCode128 /\ last.chars = <<Caret, Caret>> /\ last.code = "C"
    /\ Resolved(62) /\ code = "C"

----------------------------------------------------------------------------
(* C10 *)

\* C10: in code set A or B a plain character of the active table resolves,
\* with one character in the queue, to its position in the table: ASCII a in
\* 32..127 gives a-32 in B; in A ASCII 32..95 gives a-32 and 0..31 gives a+64
\* ('^103AZ_' gives 103,33,58,63 and NUL gives 64).
C10_TablePosition ==
    /\ PlainLookup =>
          LET a == last.chars[1]
          IN  /\ (last.code = "B" /\ a \in 32..127) =>
                    (Len(last.chars) = 1 /\ Resolved(a - 32) /\ queue = <<>>)
              /\ (last.code = "A" /\ a \in 32..95) =>
                    (Len(last.chars) = 1 /\ Resolved(a - 32) /\ queue = <<>>)
              /\ (last.code = "A" /\ a \in 0..31) =>
                    (Len(last.chars) = 1 /\ Resolved(a + 64) /\ queue = <<>>)
    /\ (IsCode128 /\ consumed = S(<<"^","1","0","3","A","Z","_">>)) =>
          out = Ints(<<103, 33, 58, 63>>)

\* NUL has been resolved to 64 in code set A
C10_Witness ==
    /\ PlainLookup /\ last.code = "A" /\ last.chars = <<0>> /\ Resolved(64)
    /\ out = Ints(<<103, 64>>)

----------------------------------------------------------------------------
(* C11 *)

\* a plain queue read in code set C
PairLookup == IsCode128 /\ Called /\ last.code = "C" /\ ~StartsWithCaret

\* C11: in code set C, with an empty queue, a first digit is pending and the
\* second digit resolves the pair to 10*d1+d2, the code set staying C; a run
\* of 2k digits yields k ordinals ('^105^102123456^100A1' gives
\* [105,102,12,34,56,100,33,17]).
C11_DigitPairs ==
    /\ (PairLookup /\ Len(last.chars) = 1 /\ IsDigitChar(last.chars[1])) =>
          (Pending /\ queue = last.chars /\ last.yield = <<>> /\ code = "C")
    /\ (PairLookup /\ Len(last.chars) = 2 /\ IsDigitChar(last.chars[1])
            /\ IsDigitChar(last.chars[2])) =>
          LET n == 10 * (last.chars[1] - ord("0")) + (last.chars[2] - ord("0"))
          IN  Resolved(n) /\ last.yield = <<PyInt(n)>> /\ queue = <<>> /\ code = "C"
    /\ (IsCode128 /\ consumed = S(<<"^","1","0","5","^","1","0","2","1","2","3","4","5","6">>)) =>
          out = Ints(<<105, 102, 12, 34, 56>>)
    /\ (IsCode128 /\ pc = "done"
          /\ consumed = S(<<"^","1","0","5","^","1","0","2","1","2","3","4","5","6",
                            "^","1","0","0","A","1">>)) =>
          out = Ints(<<105, 102, 12, 34, 56, 100, 33, 17>>)

\* the pair 07 has been resolved to 7 after ^105
C11_Witness ==
    /\ PairLookup /\ last.chars = S(<<"0","7">>) /\ Resolved(7)
    /\ out = Ints(<<105, 7>>) /\ code = "C"

----------------------------------------------------------------------------
(* C12 *)

\* C12: the base class, which supplies no resolver, fails with a TypeError
\* (not a TranslationError) at the first character of any non-empty message
\* under every policy; the failure is never ignored or replaced.
C12_NoResolverFails ==
    /\ (kind = "Translation" /\ consumed # <<>>) =>
          /\ Len(consumed) = 1
          /\ last.ret = PyNotImplemented
          /\ pc = "raised" /\ err = "TypeError"
          /\ out = <<>>
    /\ err = "TypeError" => kind = "Translation"

\* the base class has failed under the replacement policy
C12_Witness ==
    /\ kind = "Translation" /\ Replacing /\ pc = "raised" /\ err = "TypeError"
    /\ Len(consumed) = 1

----------------------------------------------------------------------------
(* C13 *)

\* C13: when the message ends while characters are queued and unresolved (a
\* trailing '^', a single digit in code set C) the generator returns normally:
\* the pending characters are dropped, nothing is yielded for them and nothing
\* is raised, under every policy, Raise included.
C13_PendingTailDropped ==
    /\ (Pending /\ pc # "running") => (pc = "done" /\ err = "" /\ queue = last.chars)
    /\ pc = "done" => (err = "" /\ (streamed \/ message = <<>>))
    /\ (IsCode128 /\ pc = "done" /\ consumed = S(<<"^","1","0","5","^","1","0","2","^">>)) =>
          (out = Ints(<<105, 102>>) /\ queue = S(<<"^">>))
    /\ (IsCode128 /\ pc = "done" /\ consumed = S(<<"^","1","0","5","1">>)) =>
          (out = Ints(<<105>>) /\ queue = S(<<"1">>))

\* the doctest: '^105^102^' has ended under Raise with '^' still queued
C13_Witness ==
    /\ IsCode128 /\ Raising /\ pc = "done" /\ err = ""
    /\ consumed = S(<<"^","1","0","5","^","1","0","2","^">>)
    /\ queue = S(<<"^">>) /\ out = Ints(<<105, 102>>)

----------------------------------------------------------------------------
(* C16 *)

\* MapTranslation(charmap('012'), extra_map=charmap('1x', offset=7))
BaseOfExtra == charmap(S(<<"0","1","2">>), 0, <<>>)
ExtraMap == charmap(S(<<"1","x">>), 7, <<>>)
ExtraMapConfig == MapTranslationInit(BaseOfExtra, 1, 1, ExtraMap)

\* C16: with a supplemental map, every key of the supplemental map resolves to
\* its supplemental value, whether the base map has the key too or not; the
\* keys of the base map alone resolve to their base value.
C16_ExtraMapMerged ==
    (kind = "MapTranslation" /\ cfg = ExtraMapConfig /\ Called /\ Len(last.chars) = 1) =>
        /\ last.chars \in DOMAIN ExtraMap =>
              (last.exc = "" /\ last.ret = ExtraMap[last.chars]
                  /\ last.yield = <<ExtraMap[last.chars]>>)
        /\ last.chars \in (DOMAIN BaseOfExtra \ DOMAIN ExtraMap) =>
              (last.exc = "" /\ last.ret = BaseOfExtra[last.chars]
                  /\ last.yield = <<BaseOfExtra[last.chars]>>)

----------------------------------------------------------------------------
(* C17 *)

Started == pc \in {"running", "done", "raised"}

IsSuffix(q, s) ==
    Len(q) <= Len(s) /\ SubSeq(s, Len(s) - Len(q) + 1, Len(s)) = q

\* what holds of the queue in every state of a run
QueueInvariant ==
    Started =>
        /\ IsSuffix(queue, consumed)
        /\ Len(last.yield) <= 1
        /\ last.yield # <<>> => queue = <<>>
        /\ (Unresolvable /\ ~Raising) => queue = <<>>
        /\ Len(out) + Len(queue) <= Len(consumed)

\* what a pass of the loop does to the queue and to the output
QueueStep ==
    consumed' # consumed =>
        /\ Len(consumed') = Len(consumed) + 1
        /\ SubSeq(consumed', 1, Len(consumed)) = consumed
        /\ last'.chars = Append(queue, consumed'[Len(consumed')])
        /\ queue' \in {<<>>, last'.chars}
        /\ out' = out \o last'.yield
        /\ queue' = <<>> \/ out' = out

\* C17: in every state the queue is a contiguous run of the most recently read
\* characters; a pass of the loop adds one character to it, then leaves it or
\* clears it; it is empty after every yielded value and after every ignored
\* or replaced error; a pass yields at most one value; so the yielded values
\* answer, in order, to contiguous runs of the input that do not overlap.
C17_QueueIsContiguousRun == []QueueInvariant /\ [][QueueStep]_vars

\* three characters are queued behind one yielded value
C17_Witness ==
    /\ IsCode128 /\ pc = "running"
    /\ consumed = S(<<"^","1","0","5","^","1","0">>)
    /\ queue = S(<<"^","1","0">>) /\ out = Ints(<<105>>)

----------------------------------------------------------------------------
(* C20 *)

\* C20: in code set C an escape is recognised only at a pair boundary: with
\* one plain character pending the next character, '^' included, is the second
\* character of the pair; when the two are not both decimal digits the pair
\* yields no ordinal and the run stops with an error that is neither ignored
\* nor replaced.
C20_BadPairStopsRun ==
    (PairLookup /\ Len(last.chars) = 2
        /\ ~(IsDigitChar(last.chars[1]) /\ IsDigitChar(last.chars[2]))) =>
        /\ last.exc \notin {"", "TranslationError"}
        /\ last.yield = <<>>
        /\ pc = "raised" /\ err = last.exc

----------------------------------------------------------------------------
(* C14 *)

\* C14: every run starts from a reset state: at its first translate_chars
\* call self.code is None and the queue is the first character alone,
\* whatever the runs before did (ended, failed, or were left part-way); so a
\* run on a used instance yields what the same run yields on a fresh one.
C14_RunStartsReset ==
    /\ (Started /\ Len(consumed) = 1) => (last.code = "None" /\ last.chars = consumed)
    /\ (pc = "running" /\ consumed = <<>>) => (code = "None" /\ queue = <<>>)
    /\ Started =>
          LET f == FreshRun(kind, cfg, on_error, consumed)
          IN  out = f.out /\ queue = f.queue /\ code = f.code /\ err = f.exc

\* a second run, called with self.code left at 'A', has yielded nothing for 'A1'
C14_Witness ==
    /\ IsCode128 /\ Len(runs) = 2 /\ runs[2] = "A"
    /\ pc = "done" /\ consumed = S(<<"A","1">>) /\ out = <<>>

----------------------------------------------------------------------------
(* C15 *)

\* C15: reset() clears the lookahead queue and the code set, also when it is
\* called while characters are pending: after reset() the queue is empty and
\* code is None, and a second reset() changes nothing.
C15_ResetClearsQueueAndCode ==
    (lastop = "reset" /\ pc \in {"created", "running"}) =>
        (queue = <<>> /\ code = "None" /\ reset(kind, code) = code)

\* what reset() does: it clears the code set and leaves the generator alone
ResetInvariant == lastop = "reset" => (code = "None" /\ reset(kind, code) = code)
ResetStep ==
    lastop' = "reset" =>
        (code' = "None" /\ queue' = queue /\ out' = out /\ pc' = pc /\ consumed' = consumed)

\* reset() clears the code set and nothing else: after reset() code is None,
\* the queue of a running translate() is as it was (it is a local of the
\* generator, emptied when a run starts), and a second reset() changes nothing
ResetClearsCode == []ResetInvariant /\ [][ResetStep]_vars

\* reset() has been called in code set A with '^' pending
ResetWithPending ==
    /\ IsCode128 /\ lastop = "reset" /\ pc = "running"
    /\ consumed = S(<<"^","1","0","1","^">>) /\ queue = S(<<"^">>)
    /\ last.code = "A" /\ code = "None"

----------------------------------------------------------------------------
(* C18 *)

ShiftOrdinals == {99, 100, 101, 103, 104, 105}

\* the pass that has just run resolved a mode-shift escape
ShiftResolved ==
    /\ last'.exc = "" /\ last'.ret.t = "int" /\ last'.ret.v \in ShiftOrdinals
    /\ Len(last'.chars) >= 2 /\ last'.chars[1] = Caret
    /\ isdigit(Tail(last'.chars)) /\ DecValue(Tail(last'.chars)) = last'.ret.v

CodeChangesOnlyOnShift ==
    /\ code' # code => (lastop' \in {"begin", "reset"} \/ (lastop' = "step" /\ ShiftResolved))
    /\ lastop' = "step" => last'.code = code
    /\ (lastop' = "step" /\ ~ShiftResolved) => code' = code

\* C18: self.code changes only on reset and on resolving a mode-shift escape
\* (99, 100, 101, 103, 104, 105): a call that is pending or unresolvable, or
\* that resolves a plain character, a digit pair, '^^' or another escape
\* (96, 97, 98, 102, 106, 107), leaves it as it was.
C18_CodeFrame == [][CodeChangesOnlyOnShift]_vars

\* ^102 has been resolved in code set C and has left it at C
C18_Witness == EscapeOf(102) /\ Resolved(102) /\ last.code = "C" /\ code = "C" /\ lastop = "step"

----------------------------------------------------------------------------
(* C19 *)

\* the first generator is where a run of its own on a fresh instance would be
FirstAsAlone ==
    LET f == FreshRun(kind, cfg, on_error, consumed)
    IN  out = f.out /\ queue = f.queue /\ code = f.code /\ err = f.exc

\* the second generator is where a run of its own on a fresh instance would be
SecondAsAlone ==
    LET f == FreshRun(kind, cfg, other.on_error, other.consumed)
    IN  other.out = f.out /\ other.queue = f.queue /\ other.code = f.code /\ other.err = f.exc

SeparateInstances ==
    /\ (~other.shared /\ Started) => FirstAsAlone
    /\ (~other.shared /\ other.pc \in {"running", "done", "raised"}) => SecondAsAlone

OwnQueueSharedCode ==
    /\ lastop' \in {"begin2", "step2", "finish2"} =>
          /\ queue' = queue /\ out' = out /\ consumed' = consumed /\ pc' = pc
          /\ (other.shared /\ lastop' = "begin2") => code' = "None"
          /\ ~other.shared => code' = code
    /\ lastop' \in {"begin", "step", "finish"} => other' = other
    /\ lastop' = "step" => last'.code = code

\* C19: two generators of one Code128Translation instance pulled in
\* alternation have a queue each and one self.code: a pull of the second
\* leaves the queue and the output of the first as they were, its
\* start-of-run reset and its mode shifts are what the next translate_chars
\* call of the first finds in self.code, so the first can yield other values
\* than alone; generators of two instances run as if alone.
C19_TwoGenerators == []SeparateInstances /\ [][OwnQueueSharedCode]_vars

\* on one instance the first generator has ended '^103AA' with 103 alone,
\* where a run of its own yields 103, 33, 33
C19_Witness ==
    /\ other.shared /\ pc = "done" /\ consumed = S(<<"^","1","0","3","A","A">>)
    /\ out = <<PyInt(103)>>
    /\ FreshRun(kind, cfg, on_error, consumed).out = <<PyInt(103), PyInt(33), PyInt(33)>>
    /\ other.pc = "done"

====
